---------------------------- MODULE Spec2Model ----------------------------
(***************************************************************************)
(* Face checkpoint store of sd-webui-faceswaplab                           *)
(* (scripts/faceswaplab_utils/face_checkpoints_utils.py).                  *)
(*                                                                         *)
(* Strings are sequences of one-character strings, so that the regular     *)
(* expression of sanitize_name, str.replace, str.endswith, os.path.join    *)
(* and sorted() are computed character by character.  The file system is a *)
(* function from path to file; a face descriptor is a function from key to *)
(* value.                                                                  *)
(***************************************************************************)
EXTENDS Integers, Sequences, FiniteSets, TLC

VARIABLES
    fs,       \* the files on disk: path -> [kind, data, by]
    pc,       \* per caller: position inside build_face_checkpoint_and_save
    loc,      \* per caller: the locals of build_face_checkpoint_and_save
    calls,    \* number of build_face_checkpoint_and_save calls started
    ret,      \* the outcome of the operation that completed last
    prev,     \* the outcome of the save / migrating load right before it
    clobber,  \* history: non-overwrite builds that replaced an existing file
    sanPc,    \* sanitize_name harness: "in" before the call, "out" after
    sanIn,    \* sanitize_name harness: the argument
    sanOut    \* sanitize_name harness: the returned string

vars == <<fs, pc, loc, calls, ret, prev, clobber, sanPc, sanIn, sanOut>>
storeVars == <<fs, pc, loc, calls, ret, prev, clobber>>
sanVars == <<sanPc, sanIn, sanOut>>

---------------------------------------------------------------------------
(* Bounds of the model *)

\* total number of build_face_checkpoint_and_save calls in one behaviour
MaxBuilds == 2
\* length of the free part of the strings handed to sanitize_name
MaxShort == 2

---------------------------------------------------------------------------
(* String literals *)

SafetensorsExt == <<".", "s", "a", "f", "e", "t", "e", "n", "s", "o", "r", "s">>
PklExt == <<".", "p", "k", "l">>
PngExt == <<".", "p", "n", "g">>
DefaultName == <<"d", "e", "f", "a", "u", "l", "t", "_", "n", "a", "m", "e">>
NoneStr == <<"N", "o", "n", "e">>
Sep == "/"

Upper == {"A", "B", "C", "D", "E", "F", "G", "H", "I", "J", "K", "L", "M",
          "N", "O", "P", "Q", "R", "S", "T", "U", "V", "W", "X", "Y", "Z"}
Lower == {"a", "b", "c", "d", "e", "f", "g", "h", "i", "j", "k", "l", "m",
          "n", "o", "p", "q", "r", "s", "t", "u", "v", "w", "x", "y", "z"}
Digit == {"0", "1", "2", "3", "4", "5", "6", "7", "8", "9"}

\* the characters in code point order, as sorted() compares them
AsciiOrder ==
    <<" ", "!", ".", "/",
      "0", "1", "2", "3", "4", "5", "6", "7", "8", "9",
      "A", "B", "C", "D", "E", "F", "G", "H", "I", "J", "K", "L", "M",
      "N", "O", "P", "Q", "R", "S", "T", "U", "V", "W", "X", "Y", "Z",
      "\\", "_",
      "a", "b", "c", "d", "e", "f", "g", "h", "i", "j", "k", "l", "m",
      "n", "o", "p", "q", "r", "s", "t", "u", "v", "w", "x", "y", "z">>

Code(c) == CHOOSE i \in 1..Len(AsciiOrder) : AsciiOrder[i] = c

Min(a, b) == IF a < b THEN a ELSE b

\* str.startswith / str.endswith
StartsWith(s, p) == Len(s) >= Len(p) /\ SubSeq(s, 1, Len(p)) = p
EndsWith(s, p) ==
    Len(s) >= Len(p) /\ SubSeq(s, Len(s) - Len(p) + 1, Len(s)) = p

\* s[i:] for a 1-based i
Drop(s, n) == SubSeq(s, n + 1, Len(s))

\* `c in s`
Contains(s, c) == \E i \in 1..Len(s) : s[i] = c

\* str.replace(old, new): every non-overlapping occurrence, left to right
RECURSIVE Replace(_, _, _)
Replace(s, old, new) ==
    IF s = <<>> THEN <<>>
    ELSE IF StartsWith(s, old) THEN new \o Replace(Drop(s, Len(old)), old, new)
    ELSE <<Head(s)>> \o Replace(Tail(s), old, new)

\* str(n) of the f-string, decimal
DigitChar(d) == AsciiOrder[d + 5]
RECURSIVE IntToStr(_)
IntToStr(n) ==
    IF n < 10 THEN <<DigitChar(n)>>
    ELSE IntToStr(n \div 10) \o <<DigitChar(n % 10)>>

\* the str ordering sorted() uses: code points, a proper prefix first
RECURSIVE StrLess(_, _)
StrLess(a, b) ==
    IF b = <<>> THEN FALSE
    ELSE IF a = <<>> THEN TRUE
    ELSE IF Head(a) = Head(b) THEN StrLess(Tail(a), Tail(b))
    ELSE Code(Head(a)) < Code(Head(b))

\* sorted(faces) of a collection without duplicates
RECURSIVE Sorted(_)
Sorted(S) ==
    IF S = {} THEN <<>>
    ELSE LET m == CHOOSE x \in S : \A y \in S \ {x} : StrLess(x, y)
         IN  <<m>> \o Sorted(S \ {m})

\* index of the last path separator of p, 0 when it has none
LastSep(p) ==
    IF Contains(p, Sep)
    THEN CHOOSE i \in 1..Len(p) :
             p[i] = Sep /\ \A j \in (i + 1)..Len(p) : p[j] # Sep
    ELSE 0

\* os.path.basename
Basename(p) == Drop(p, LastSep(p))

\* the directory a file of path p lives in (the part before the last separator)
Dirname(p) == SubSeq(p, 1, LastSep(p) - 1)

\* os.path.join(a, b)
PathJoin(a, b) ==
    IF b # <<>> /\ Head(b) = Sep THEN b
    ELSE IF a = <<>> \/ a[Len(a)] = Sep THEN a \o b
    ELSE a \o <<Sep>> \o b

---------------------------------------------------------------------------
(* sanitize_name *)

\* the bound of name[:255]
MaxNameLen == 255

\* the characters the pattern [^A-Za-z0-9_. ]+ leaves in place
Kept(c) == c \in Upper \cup Lower \cup Digit \cup {"_", ".", " "}

\* name.replace(" ", "_")
SpaceToUnderscore(s) == [i \in 1..Len(s) |-> IF s[i] = " " THEN "_" ELSE s[i]]

\* sanitize_name without the cut, and with the separator let through
sanitize_name_NoCut(name) == SpaceToUnderscore(SelectSeq(name, Kept))

KeptOrSep(c) == Kept(c) \/ c = Sep

sanitize_name_KeepSep(name) ==
    LET r == SpaceToUnderscore(SelectSeq(name, KeptOrSep))
    IN  SubSeq(r, 1, Min(MaxNameLen, Len(r)))

sanitize_name(name) ==
    LET stripped == SelectSeq(name, Kept)
        replaced == SpaceToUnderscore(stripped)
    IN  SubSeq(replaced, 1, Min(MaxNameLen, Len(replaced)))

---------------------------------------------------------------------------
(* Directories and descriptors *)

\* scripts.basedir() of the host application
BaseDir == <<"/", "w">>

\* get_checkpoint_path(): <basedir>/models/faceswaplab/faces, created on
\* every call, so it always exists
CheckpointPath ==
    PathJoin(PathJoin(PathJoin(BaseDir, <<"m", "o", "d", "e", "l", "s">>),
                      <<"f", "a", "c", "e", "s", "w", "a", "p", "l", "a", "b">>),
             <<"f", "a", "c", "e", "s">>)

\* two directories outside the managed one; the second carries ".pkl" in
\* its own name
OtherDir == <<"/", "o">>
PklDir == <<"/", "o", ".", "p", "k", "l">>

\* the directories that exist; a file can only be created inside one of them
Dirs == {CheckpointPath, OtherDir, PklDir}

PersistedKeys == {"embedding", "gender", "age"}

\* values as the face analysis produces them: a float32 vector (num stands
\* for its contents), a numpy integer, a Python int
Embedding(n) == [kind |-> "ndarray", dtype |-> "float32", num |-> n]
NpInt(n) == [kind |-> "npint", dtype |-> "int64", num |-> n]
PyInt(n) == [kind |-> "pyint", dtype |-> "int", num |-> n]

\* a blended face: exactly embedding, gender, age
FaceWoman ==
    [embedding |-> Embedding(1), gender |-> NpInt(0), age |-> PyInt(30)]

\* a detected face: further fields beside the three
FaceMan ==
    [embedding |-> Embedding(2), gender |-> NpInt(1), age |-> PyInt(41),
     bbox |-> Embedding(7)]

NoFace == <<>>

Faces == {FaceWoman, FaceMan}

\* torch.tensor(v): the tensor keeps the numbers; numpy arrays keep their
\* dtype, integers become int64
TorchTensor(v) ==
    [kind |-> "tensor",
     dtype |-> IF v.kind = "ndarray" THEN v.dtype ELSE "int64",
     num |-> v.num]

\* f.get_tensor(k).numpy()
ToNumpy(t) == [kind |-> "ndarray", dtype |-> t.dtype, num |-> t.num]

\* a file: its format, its contents and the operation that wrote it
File(kind, data, by) == [kind |-> kind, data |-> data, by |-> by]

\* F with path now holding file
Put(F, path, file) ==
    [q \in DOMAIN F \cup {path} |-> IF q = path THEN file ELSE F[q]]

\* os.path.exists
Exists(F, path) == path \in DOMAIN F

---------------------------------------------------------------------------
(* save_face *)

\* the tensors dict with every key of the face, and with two keys crossed
Tensors_AllKeys(face) == [k \in DOMAIN face |-> TorchTensor(face[k])]

Tensors_Swapped(face) ==
    [k \in PersistedKeys |->
        TorchTensor(face[IF k = "age" THEN "gender"
                         ELSE IF k = "gender" THEN "age" ELSE k])]

\* the dict save_face hands to save_file
Tensors(face) == [k \in PersistedKeys |-> TorchTensor(face[k])]

\* save_face(face, filename): [raised, fs].  It raises on a face without
\* one of the three keys, when the directory of filename does not exist, and
\* on a write error (io); then nothing is written.
save_face(face, filename, F, by, io) ==
    IF ~(PersistedKeys \subseteq DOMAIN face) THEN [raised |-> TRUE, fs |-> F]
    ELSE IF Dirname(filename) \notin Dirs \/ io THEN [raised |-> TRUE, fs |-> F]
    ELSE [raised |-> FALSE,
          fs |-> Put(F, filename, File("safetensors", Tensors(face), by))]

---------------------------------------------------------------------------
(* matching_checkpoint and load_face *)

Resolved(path) == [none |-> FALSE, path |-> path]
Unresolved == [none |-> TRUE, path |-> <<>>]

\* matching_checkpoint completing a bare stem without probing
matching_checkpoint_NoProbe(name, F) ==
    IF Contains(name, Sep) THEN Resolved(name)
    ELSE IF ~(EndsWith(name, SafetensorsExt) \/ EndsWith(name, PklExt))
    THEN Resolved(PathJoin(CheckpointPath, name \o SafetensorsExt))
    ELSE Resolved(PathJoin(CheckpointPath, name))

matching_checkpoint(name, F) ==
    IF Contains(name, Sep) THEN Resolved(name)
    ELSE IF ~(EndsWith(name, SafetensorsExt) \/ EndsWith(name, PklExt))
    THEN IF Exists(F, PathJoin(CheckpointPath, name \o SafetensorsExt))
         THEN Resolved(PathJoin(CheckpointPath, name \o SafetensorsExt))
         ELSE IF Exists(F, PathJoin(CheckpointPath, name \o PklExt))
         THEN Resolved(PathJoin(CheckpointPath, name \o PklExt))
         ELSE Unresolved
    ELSE Resolved(PathJoin(CheckpointPath, name))

\* the outcome of one operation
Outcome(op, arg, out, face, list, filename, written) ==
    [op |-> op, arg |-> arg, out |-> out, face |-> face, list |-> list,
     filename |-> filename, written |-> written]

NoOutcome == Outcome("none", <<>>, "none", NoFace, <<>>, <<>>, {})

\* the face read back from a current-format file: every key of the file
ReadTensors(file) == [k \in DOMAIN file.data |-> ToNumpy(file.data[k])]

\* load_face(name): [out, face, filename, written, fs]; out is "value",
\* "none" (returned None) or "raise"
load_face(name, F) ==
    LET m == matching_checkpoint(name, F)
        filename == m.path
        Result(out, face, written, G) ==
            [out |-> out, face |-> face, filename |-> filename,
             written |-> written, fs |-> G]
    IN  IF m.none THEN Result("none", NoFace, {}, F)
        ELSE IF EndsWith(filename, PklExt)
        THEN IF ~Exists(F, filename) \/ F[filename].kind # "pkl"
             THEN Result("raise", NoFace, {}, F)
             ELSE LET face == F[filename].data
                      target == Replace(filename, PklExt, SafetensorsExt)
                      sv == save_face(face, target, F, "load_face", FALSE)
                  IN  IF sv.raised THEN Result("raise", NoFace, {}, F)
                      ELSE Result("value", face, {target}, sv.fs)
        ELSE IF EndsWith(filename, SafetensorsExt)
        THEN IF ~Exists(F, filename) \/ F[filename].kind # "safetensors"
             THEN Result("raise", NoFace, {}, F)
             ELSE Result("value", ReadTensors(F[filename]), {}, F)
        ELSE Result("raise", NoFace, {}, F)

---------------------------------------------------------------------------
(* get_face_checkpoints *)

\* glob.glob(<managed directory>/*<ext>): the files of the directory whose
\* name ends in ext; a name starting with a dot is hidden from "*"
Glob(F, ext) ==
    {p \in DOMAIN F :
        /\ Dirname(p) = CheckpointPath
        /\ EndsWith(Basename(p), ext)
        /\ Head(Basename(p)) # "."}

\* the listing with each glob sorted on its own and the two concatenated
get_face_checkpoints_Unmerged(F) ==
    LET st == Sorted(Glob(F, SafetensorsExt))
        pk == Sorted(Glob(F, PklExt))
        both == st \o pk
    IN  <<NoneStr>> \o [i \in 1..Len(both) |-> Basename(both[i])]

get_face_checkpoints(F) ==
    LET faces == Sorted(Glob(F, SafetensorsExt) \cup Glob(F, PklExt))
    IN  <<NoneStr>> \o [i \in 1..Len(faces) |-> Basename(faces[i])]

---------------------------------------------------------------------------
(* build_face_checkpoint_and_save: the collision policy *)

\* f"{name}.safetensors" and f"{name}_{file_number}.safetensors" under the
\* managed directory
PlainPath(name) == PathJoin(CheckpointPath, name \o SafetensorsExt)
NumberedPath(name, file_number) ==
    PathJoin(CheckpointPath,
             name \o <<"_">> \o IntToStr(file_number) \o SafetensorsExt)

\* the while loop: file_path is the candidate, file_number the next suffix
RECURSIVE ProbeLoop(_, _, _, _)
ProbeLoop(file_path, name, file_number, F) ==
    IF Exists(F, file_path)
    THEN ProbeLoop(NumberedPath(name, file_number), name, file_number + 1, F)
    ELSE file_path

\* the collision policy with suffixes starting at 2
ChooseFilePath_FromTwo(name, overwrite, F) ==
    IF overwrite THEN PlainPath(name)
    ELSE ProbeLoop(PlainPath(name), name, 2, F)

\* the collision policy without any existence probe
ChooseFilePath_NoProbe(name, overwrite, F) == PlainPath(name)

\* the path build_face_checkpoint_and_save saves to
ChooseFilePath(name, overwrite, F) ==
    IF overwrite THEN PlainPath(name)
    ELSE ProbeLoop(PlainPath(name), name, 1, F)

---------------------------------------------------------------------------
(* The state machine *)

\* the callers that may be inside build_face_checkpoint_and_save
Procs == {"p1", "p2"}

\* the names handed to build_face_checkpoint_and_save
BuildNames ==
    {<<"a">>, <<>>, <<"!", "/">>, <<".", ".", "/", "a">>}

\* what swapper.blend_faces returns
BlendResults == {FaceWoman, NoFace}

\* what the collaborators do during one build: all stages succeed, no face
\* is detected in the reference portrait, or a stage before the save raises
Stages == {"ok", "no_target", "raise"}

\* what the storage does during the save step: nothing, the checkpoint
\* write fails, the preview write fails
Faults == {"none", "save", "preview"}

IdleLoc ==
    [name |-> <<>>, overwrite |-> FALSE, face |-> NoFace, preview |-> FALSE,
     file_path |-> <<>>, seen |-> {}, raw |-> <<>>]

Managed(name) == PathJoin(CheckpointPath, name)

\* a face pickled without its age
FaceNoAge == [embedding |-> Embedding(3), gender |-> NpInt(1)]

StFile(face) == File("safetensors", Tensors(face), "installed")
PklFile(face) == File("pkl", face, "installed")

MkFs(S) == [p \in {e[1] : e \in S} |-> (CHOOSE e \in S : e[1] = p)[2]]

\* legacy files outside the managed directory
OutsideFiles ==
    {<<PathJoin(OtherDir, <<"p">> \o PklExt), PklFile(FaceWoman)>>,
     <<PathJoin(OtherDir, <<"n">> \o PklExt), PklFile(FaceNoAge)>>,
     <<PathJoin(PklDir, <<"q">> \o PklExt), PklFile(FaceWoman)>>}

\* the contents the managed directory may start with
ManagedStarts ==
    {{},
     {<<Managed(<<"a">> \o SafetensorsExt), StFile(FaceWoman)>>,
      <<Managed(<<"a", "_", "1">> \o SafetensorsExt), StFile(FaceMan)>>},
     {<<Managed(<<"b">> \o PklExt), PklFile(FaceMan)>>,
      <<Managed(<<"a">> \o SafetensorsExt), StFile(FaceWoman)>>,
      <<Managed(<<"c">> \o SafetensorsExt), StFile(FaceMan)>>},
     {<<Managed(<<"k">> \o PklExt \o <<"x">> \o PklExt), PklFile(FaceWoman)>>}}

\* the names handed to load_face
LoadNames ==
    {<<"a">>, <<"b">>, <<"z">>,
     <<"z">> \o SafetensorsExt, <<"b">> \o SafetensorsExt,
     <<"k">> \o PklExt \o <<"x">> \o PklExt,
     PathJoin(OtherDir, <<"p">> \o PklExt),
     PathJoin(OtherDir, <<"p">> \o SafetensorsExt),
     PathJoin(OtherDir, <<"n">> \o PklExt),
     PathJoin(OtherDir, <<"z">> \o PklExt),
     PathJoin(OtherDir, <<"z">>),
     PathJoin(PklDir, <<"q">> \o PklExt),
     Managed(<<"s">> \o SafetensorsExt),
     PathJoin(OtherDir, <<"s">> \o SafetensorsExt)}

\* the paths handed to save_face directly
SavePaths ==
    {Managed(<<"s">> \o SafetensorsExt),
     PathJoin(OtherDir, <<"s">> \o SafetensorsExt)}

Init ==
    /\ \E m \in ManagedStarts : fs = MkFs(m \cup OutsideFiles)
    /\ pc = [w \in Procs |-> "idle"]
    /\ loc = [w \in Procs |-> IdleLoc]
    /\ calls = 0
    /\ ret = NoOutcome
    /\ prev = NoOutcome
    /\ clobber = {}
    /\ sanPc = "idle"
    /\ sanIn = <<>>
    /\ sanOut = <<>>

\* what the next operation remembers of the one before it
Chain(r) ==
    IF r.op = "save" \/ (r.op = "load" /\ r.written # {}) THEN r ELSE NoOutcome

\* build_face_checkpoint_and_save, lines 58-114 and 126-132: sanitize,
\* blend, render the preview, choose the path.  It returns None at once when
\* no face was blended or a stage raised.
BuildProbe(w, raw, overwrite, face, stage) ==
    /\ pc[w] = "idle"
    /\ calls < MaxBuilds
    /\ calls' = calls + 1
    /\ LET name == sanitize_name(raw)
           name2 == IF name = <<>> THEN DefaultName ELSE name
       IN  IF face = NoFace \/ stage = "raise"
           THEN /\ ret' = Outcome("build", raw, "none", NoFace, <<>>, <<>>, {})
                /\ UNCHANGED <<pc, loc>>
           ELSE /\ pc' = [pc EXCEPT ![w] = "probed"]
                /\ loc' = [loc EXCEPT ![w] =
                      [name |-> name2, overwrite |-> overwrite, face |-> face,
                       preview |-> (stage = "ok"),
                       file_path |-> ChooseFilePath(name2, overwrite, fs),
                       seen |-> DOMAIN fs, raw |-> raw]]
                /\ UNCHANGED ret
    /\ prev' = NoOutcome
    /\ UNCHANGED <<fs, clobber, sanVars>>

\* build_face_checkpoint_and_save, lines 115-124 and 129-132: save_face,
\* preview_image.save, the reload whose result is only logged and whose
\* exceptions are caught, return.  preview_image is unbound when no target
\* face was detected, and line 116 then raises.
BuildSave(w, fault) ==
    /\ pc[w] = "probed"
    /\ LET L == loc[w]
           sv == save_face(L.face, L.file_path, fs, "build", fault = "save")
           png == L.file_path \o PngExt
           withPreview == Put(sv.fs, png, File("png", <<>>, "build"))
           data == load_face(L.file_path, withPreview)
       IN  /\ IF sv.raised
              THEN /\ fs' = fs
                   /\ ret' = Outcome("build", L.raw, "none", NoFace, <<>>,
                                     L.file_path, {})
              ELSE IF ~L.preview \/ fault = "preview"
              THEN /\ fs' = sv.fs
                   /\ ret' = Outcome("build", L.raw, "none", NoFace, <<>>,
                                     L.file_path, {L.file_path})
              ELSE /\ fs' = data.fs
                   /\ ret' = Outcome("build", L.raw, "value", NoFace, <<>>,
                                     L.file_path, {L.file_path, png})
           /\ clobber' =
                 IF ~sv.raised /\ ~L.overwrite /\ Exists(fs, L.file_path)
                 THEN clobber \cup
                        {[path |-> L.file_path, seen |-> L.seen,
                          replaced |-> fs[L.file_path].by]}
                 ELSE clobber
    /\ pc' = [pc EXCEPT ![w] = "idle"]
    /\ loc' = [loc EXCEPT ![w] = IdleLoc]
    /\ prev' = NoOutcome
    /\ UNCHANGED <<calls, sanVars>>

\* load_face(name)
LoadFace(name) ==
    /\ LET r == load_face(name, fs)
       IN  /\ fs' = r.fs
           /\ ret' = Outcome("load", name, r.out, r.face, <<>>, r.filename,
                             r.written)
    /\ prev' = Chain(ret)
    /\ UNCHANGED <<pc, loc, calls, clobber, sanVars>>

\* save_face(face, filename) called on its own
SaveFace(face, filename) ==
    /\ LET sv == save_face(face, filename, fs, "save_face", FALSE)
       IN  /\ fs' = sv.fs
           /\ ret' = Outcome("save", filename,
                             IF sv.raised THEN "raise" ELSE "none", face, <<>>,
                             filename, IF sv.raised THEN {} ELSE {filename})
    /\ prev' = Chain(ret)
    /\ UNCHANGED <<pc, loc, calls, clobber, sanVars>>

\* get_face_checkpoints()
GetFaceCheckpoints ==
    /\ ret' = Outcome("list", <<>>, "value", NoFace, get_face_checkpoints(fs),
                      <<>>, {})
    /\ prev' = Chain(ret)
    /\ UNCHANGED <<fs, pc, loc, calls, clobber, sanVars>>

\* the build workflow: callers of build_face_checkpoint_and_save, which may
\* interleave between the existence probe and the save, and the listing
Next ==
    \/ \E w \in Procs, raw \in BuildNames, overwrite \in BOOLEAN,
          face \in BlendResults, stage \in Stages :
          BuildProbe(w, raw, overwrite, face, stage)
    \/ \E w \in Procs, fault \in Faults : BuildSave(w, fault)
    \/ GetFaceCheckpoints

Spec == Init /\ [][Next]_vars

\* the checkpoint store: load_face, save_face and the listing
StoreNext ==
    \/ \E name \in LoadNames : LoadFace(name)
    \/ \E face \in Faces, filename \in SavePaths : SaveFace(face, filename)
    \/ GetFaceCheckpoints

SpecStore == Init /\ [][StoreNext]_vars

---------------------------------------------------------------------------
(* sanitize_name on its own *)

SanAlphabet == {"a", "Z", "9", "_", ".", " ", "/", "!", "\\"}

\* the strings over SanAlphabet of length at most MaxShort
ShortStrings == UNION {[1..n -> SanAlphabet] : n \in 0..MaxShort}

\* n copies of c
Pad(n, c) == [i \in 1..n |-> c]

\* arguments of sanitize_name: short strings, and strings around the cap
SanInputs ==
    {Pad(n, c) \o s :
        n \in {0, MaxNameLen - 1, MaxNameLen}, c \in {"a", " ", "!"},
        s \in ShortStrings}

SanInit ==
    /\ fs = MkFs(OutsideFiles)
    /\ pc = [w \in Procs |-> "idle"]
    /\ loc = [w \in Procs |-> IdleLoc]
    /\ calls = 0
    /\ ret = NoOutcome
    /\ prev = NoOutcome
    /\ clobber = {}
    /\ sanPc = "in"
    /\ sanIn \in SanInputs
    /\ sanOut = <<>>

SanitizeCall ==
    /\ sanPc = "in"
    /\ sanOut' = sanitize_name(sanIn)
    /\ sanPc' = "out"
    /\ UNCHANGED <<sanIn, storeVars>>

SanNext == SanitizeCall

SpecSanitize == SanInit /\ [][SanNext]_vars

---------------------------------------------------------------------------
(* Properties *)

\* C1: with overwrite not requested, the path chosen for the save is
\* <name>.safetensors if that path is free, otherwise <name>_k.safetensors
\* for the smallest k >= 1 whose path is free; the chosen path never names a
\* file that existed when the probe ran.
C1_FirstFreePath ==
    \A w \in Procs :
        (pc[w] = "probed" /\ ~loc[w].overwrite) =>
            LET L == loc[w]
                plain == Managed(L.name \o SafetensorsExt)
                numbered(k) ==
                    Managed(L.name \o <<"_">> \o IntToStr(k) \o SafetensorsExt)
            IN  /\ L.file_path \notin L.seen
                /\ \/ L.file_path = plain
                   \/ /\ plain \in L.seen
                      /\ \E k \in 1..(Cardinality(L.seen) + 1) :
                            /\ L.file_path = numbered(k)
                            /\ \A j \in 1..(k - 1) : numbered(j) \in L.seen

\* C1 witness: alpha and alpha_1 exist, and alpha_2 is chosen
C1_Witness ==
    \E w \in Procs :
        /\ pc[w] = "probed"
        /\ ~loc[w].overwrite
        /\ loc[w].name = <<"a">>
        /\ Managed(<<"a">> \o SafetensorsExt) \in loc[w].seen
        /\ Managed(<<"a", "_", "1">> \o SafetensorsExt) \in loc[w].seen
        /\ loc[w].file_path = Managed(<<"a", "_", "2">> \o SafetensorsExt)

\* the names of the files of the managed directory
ManagedNames == {Basename(p) : p \in {q \in DOMAIN fs : Dirname(q) = CheckpointPath}}

\* the directory of the listing example: b.pkl, a.safetensors, c.safetensors
ExampleDirectory ==
    ManagedNames =
        {<<"b">> \o PklExt, <<"a">> \o SafetensorsExt, <<"c">> \o SafetensorsExt}

\* C2 (as stated): on a managed directory holding exactly b.pkl,
\* a.safetensors and c.safetensors the listing is
\* ["None", "a.safetensors", "c.safetensors", "b.pkl"].
C2_Original ==
    (ret.op = "list" /\ ExampleDirectory) =>
        ret.list = <<NoneStr, <<"a">> \o SafetensorsExt,
                     <<"c">> \o SafetensorsExt, <<"b">> \o PklExt>>

\* C2 (amended): on that directory the listing is
\* ["None", "a.safetensors", "b.pkl", "c.safetensors"]: the sentinel first,
\* then the basenames of all files of both extensions in one lexicographic
\* order.
C2_MergedOrder ==
    (ret.op = "list" /\ ExampleDirectory) =>
        ret.list = <<NoneStr, <<"a">> \o SafetensorsExt,
                     <<"b">> \o PklExt, <<"c">> \o SafetensorsExt>>

\* C2 witness: the listing ran on the example directory
C2_Witness == ret.op = "list" /\ ExampleDirectory /\ Len(ret.list) = 4

\* the three forms of a name handed to load_face
HasSep(name) == Contains(name, Sep)
HasExt(name) == EndsWith(name, SafetensorsExt) \/ EndsWith(name, PklExt)
BareStem(name) == ~HasSep(name) /\ ~HasExt(name)

\* the files a name stands for
Designated(name) ==
    IF HasSep(name) THEN {name}
    ELSE IF HasExt(name) THEN {Managed(name)}
    ELSE {Managed(name \o SafetensorsExt), Managed(name \o PklExt)}

\* the last operation was load_face on a name that stands for no file
\* (load_face on such a name leaves the files as they are)
LoadedMissing ==
    ret.op = "load" /\ Designated(ret.arg) \cap DOMAIN fs = {}

\* C3 (as stated): load_face returns None and does not raise whenever the
\* name resolves to no existing file, for every form of name.
C3_Original == LoadedMissing => ret.out = "none"

\* C3 (amended): load_face returns None without raising when the name is a
\* bare stem (no separator, no .safetensors or .pkl ending) for which
\* neither file exists; for a name with one of the two endings or with a
\* separator that names no existing file it raises.
C3_NoneForBareStem ==
    LoadedMissing =>
        IF BareStem(ret.arg) THEN ret.out = "none" ELSE ret.out = "raise"

\* C3 witness: a bare stem without a file was loaded and None returned
C3_Witness ==
    LoadedMissing /\ ret.arg = <<"z">> /\ ret.out = "none"

\* numeric equality of two stored values
SameNumber(a, b) == a.num = b.num

\* the last two operations: a legacy load that migrated, then a load of the
\* file the migration wrote
LegacyThenMigrated ==
    /\ prev.op = "load" /\ prev.out = "value" /\ prev.written # {}
    /\ ret.op = "load" /\ ret.filename \in prev.written

\* C4 (as stated): the descriptor returned for the legacy file equals (same
\* keys, same values) the one returned for the migrated file.
C4_Original ==
    LegacyThenMigrated =>
        /\ ret.out = "value"
        /\ DOMAIN ret.face = DOMAIN prev.face
        /\ \A k \in DOMAIN ret.face : SameNumber(ret.face[k], prev.face[k])

\* C4 (amended): the descriptor returned for the migrated file has exactly
\* the keys embedding, age and gender, with the values of the descriptor
\* returned for the legacy file; the legacy descriptor keeps every key of
\* the pickled object, so the two have the same keys only when the pickled
\* object has exactly those three.
C4_EqualOnPersisted ==
    LegacyThenMigrated =>
        /\ ret.out = "value"
        /\ DOMAIN ret.face = PersistedKeys
        /\ PersistedKeys \subseteq DOMAIN prev.face
        /\ \A k \in PersistedKeys : SameNumber(ret.face[k], prev.face[k])
        /\ prev.face = fs[prev.filename].data

\* C4 witness: a legacy descriptor with a further key was loaded, then its
\* migrated file
C4_Witness ==
    /\ LegacyThenMigrated
    /\ "bbox" \in DOMAIN prev.face
    /\ ret.out = "value"

\* the last two operations: save_face(d, p) that succeeded, then load_face(p)
SavedThenLoaded ==
    /\ prev.op = "save" /\ prev.out = "none"
    /\ ret.op = "load" /\ ret.arg = prev.arg

C6_NoPartialWrite ==
    (ret.op = "build" /\ ret.out = "none") =>
        \A p \in ret.written : Dirname(p) # CheckpointPath

\* the last operation was load_face on an existing legacy file holding a
\* descriptor with the three persisted keys
LoadedLegacy ==
    /\ ret.op = "load"
    /\ EndsWith(ret.filename, PklExt)
    /\ ret.filename \in DOMAIN fs
    /\ fs[ret.filename].kind = "pkl"
    /\ PersistedKeys \subseteq DOMAIN fs[ret.filename].data

\* the path beside a legacy file: same directory, same stem, .safetensors
Beside(legacy) ==
    SubSeq(legacy, 1, Len(legacy) - Len(PklExt)) \o SafetensorsExt

\* C7: for every legacy file resolved by load_face the migrated file is
\* written in the same directory, with the same stem and the .safetensors
\* extension, and the legacy file is left in place.
C7_MigratedBeside ==
    LoadedLegacy =>
        /\ ret.written = {Beside(ret.filename)}
        /\ Beside(ret.filename) \in DOMAIN fs
        /\ fs[Beside(ret.filename)].kind = "safetensors"

\* C8: sanitize_name returns, for every input, a string of characters of
\* [A-Za-z0-9_.] only (no space remains; while nothing is cut every kept
\* space shows as an underscore) of length at most 255.
C8_Sanitized ==
    sanPc = "out" =>
        /\ \A i \in 1..Len(sanOut) :
              sanOut[i] \in Upper \cup Lower \cup Digit \cup {"_", "."}
        /\ Len(sanOut) <= 255
        /\ Len(sanOut) < 255 =>
              Len(SelectSeq(sanOut, LAMBDA c : c = "_")) =
                  Len(SelectSeq(sanIn, LAMBDA c : c = "_" \/ c = " "))

\* C8 witness: an input longer than 255 with spaces and a disallowed
\* character was cut to 255
C8_Witness ==
    /\ sanPc = "out"
    /\ Len(sanIn) > 255
    /\ Contains(sanIn, " ")
    /\ Contains(sanIn, "!")
    /\ Len(sanOut) = 255

\* C9: a build with overwrite not requested replaces an existing checkpoint
\* only in the race: the file it replaces did not exist when it probed and
\* was written by another build between its probe and its save.
C9_ReplacedOnlyInRace ==
    \A c \in clobber : c.path \notin c.seen /\ c.replaced = "build"

\* C9 witness: two interleaved non-overwrite builds selected the same path
\* and the later save replaced the earlier checkpoint
C9_Witness ==
    /\ ret.op = "build" /\ ret.out = "value"
    /\ \E c \in clobber :
          c.path = ret.filename /\ c.path \notin c.seen /\ c.replaced = "build"

\* C10: for every user-supplied name the checkpoint path is a direct child
\* of the managed directory with a non-empty stem: the sanitized name holds
\* no path separator, and an empty sanitized name is replaced by
\* "default_name" before the path is built.
C10_DirectChild ==
    \A w \in Procs :
        pc[w] = "probed" =>
            LET L == loc[w]
                base == Basename(L.file_path)
                stem == SubSeq(base, 1, Len(base) - Len(SafetensorsExt))
            IN  /\ Dirname(L.file_path) = CheckpointPath
                /\ EndsWith(base, SafetensorsExt)
                /\ stem # <<>>
                /\ ~Contains(L.name, Sep)
                /\ StartsWith(stem, L.name)
                /\ (\A i \in 1..Len(L.raw) : ~Kept(L.raw[i])) =>
                       L.name = DefaultName

\* C10 witness: a name with path separators and ".." was given and its
\* checkpoint written inside the managed directory
C10_Witness ==
    /\ ret.op = "build" /\ ret.out = "value"
    /\ ret.arg = <<".", ".", "/", "a">>
    /\ ret.filename = Managed(<<".", ".", "a">> \o SafetensorsExt)
    /\ ret.filename \in DOMAIN fs

=============================================================================
